---- MODULE Spec2Model ----
(***************************************************************************)
(* State-machine model of split_preview.py: the script that splits         *)
(* src/core/preview.rs into src/core/preview/{mod,types,cache,renderer,    *)
(* layers,utils}.rs and then removes the original.                         *)
(*                                                                         *)
(* Text is a sequence of tokens.  A token stands for a fixed piece of text *)
(* that the script looks for (or for one blank character); offsets and     *)
(* line numbers are 0-based as in Python, counted in tokens.               *)
(***************************************************************************)
EXTENDS Integers, Sequences, FiniteSets, TLC

----------------------------------------------------------------------------
(* Bounds of the model *)

MaxPre == 5

MaxBody == 4

MaxInserted == 2

MaxRuns == 2

MaxFaults == 1

----------------------------------------------------------------------------
(* Tokens *)

NL == "\n"

SP == " "

INDENT == "    "

Whitespace == {NL, SP, INDENT}

tUse == "use"

tConst == "const DEFAULT_MAX_PREVIEW_WIDTH"

tDerive == "#[derive"

tPreviewStats == "PreviewStats"

(* The search keys of the text.index calls, as token sequences *)
KeyFrameCache == <<"struct FrameCache">>

KeyGenerates == <<"/// Generates composited preview frames">>

KeyPlate == <<"impl PreviewRenderer {", NL, INDENT, "fn plate_images">>

KeyPendingDecode == <<"struct PendingDecode">>

KeyClampTime == <<"fn clamp_time">>

----------------------------------------------------------------------------
(* Python's str operations on token sequences *)

Min(S) == CHOOSE x \in S : \A y \in S : x <= y

Max(S) == CHOOSE x \in S : \A y \in S : x >= y

Range(s) == {s[i] : i \in 1..Len(s)}

(* the offsets (0-based) at which key occurs in text *)
Occurrences(text, key) ==
  {i - 1 : i \in {j \in 1..(Len(text) - Len(key) + 1) :
                    SubSeq(text, j, j + Len(key) - 1) = key}}

NotFound == -1

(* a mutation of Index: the last occurrence instead of the first *)
IndexLast(text, key) ==
  IF Occurrences(text, key) = {} THEN NotFound ELSE Max(Occurrences(text, key))

(* text.index(key): the first occurrence in the whole text; NotFound stands
   for the ValueError *)
Index(text, key) ==
  IF Occurrences(text, key) = {} THEN NotFound ELSE Min(Occurrences(text, key))

(* text[a:b] for 0 <= a and 0 <= b *)
Slice(text, a, b) ==
  IF a >= b \/ a >= Len(text) THEN <<>>
  ELSE SubSeq(text, a + 1, IF b > Len(text) THEN Len(text) ELSE b)

(* text[a:] *)
SliceFrom(text, a) == Slice(text, a, Len(text))

(* a mutation of Strip: the call to strip() is forgotten *)
NoStrip(s) == s

(* str.strip() *)
Strip(s) ==
  LET solid == {i \in 1..Len(s) : s[i] \notin Whitespace}
  IN  IF solid = {} THEN <<>> ELSE SubSeq(s, Min(solid), Max(solid))

(* str.startswith, for a one-token prefix *)
StartsWith(s, tok) == Len(s) >= 1 /\ s[1] = tok

(* line.startswith('use ') *)
StartsWithUse(s) == Len(s) >= 2 /\ s[1] = tUse /\ s[2] = SP

RECURSIVE SplitLines(_)
(* str.splitlines(): a final line terminator opens no further line *)
SplitLines(s) ==
  IF s = <<>> THEN <<>>
  ELSE LET nls == {i \in 1..Len(s) : s[i] = NL}
       IN  IF nls = {} THEN <<s>>
           ELSE <<SubSeq(s, 1, Min(nls) - 1)>>
                  \o SplitLines(SubSeq(s, Min(nls) + 1, Len(s)))

RECURSIVE Join(_)
(* '\n'.join(lines) *)
Join(ls) ==
  IF ls = <<>> THEN <<>>
  ELSE IF Len(ls) = 1 THEN ls[1]
  ELSE ls[1] \o <<NL>> \o Join(Tail(ls))

----------------------------------------------------------------------------
(* Lines 25-41: the scan of the types block *)

StopIteration == -1

IndexError == -2

(* next(i for i, line in enumerate(lines)
        if line.strip().startswith('#[derive') and 'PreviewStats' in lines[i+1]):
   the generator reads lines[i+1] as soon as line i starts with the derive
   text, so a derive line that is the last line raises IndexError *)
PreviewStatsIdx(ls) ==
  LET stops == {i \in 1..Len(ls) :
                  /\ StartsWith(Strip(ls[i]), tDerive)
                  /\ (i = Len(ls) \/ tPreviewStats \in Range(ls[i + 1]))}
  IN  IF stops = {} THEN StopIteration
      ELSE IF Min(stops) = Len(ls) THEN IndexError
      ELSE Min(stops) - 1

(* next(i for i, line in enumerate(lines)
        if line.startswith('const DEFAULT_MAX_PREVIEW_WIDTH')) *)
ConstStart(ls) ==
  LET hits == {i \in 1..Len(ls) : StartsWith(ls[i], tConst)}
  IN  IF hits = {} THEN StopIteration ELSE Min(hits) - 1

(* the loop of lines 36-38 *)
Uses(ls, cs) == SelectSeq(Slice(ls, 0, cs), StartsWithUse)

(* '\n'.join(lines[const_start:const_end]).strip() *)
ConstBlock(ls, cs, ce) == Strip(Join(Slice(ls, cs, ce)))

(* '\n'.join(lines[preview_stats_idx:]).strip() *)
TypeBlock(ls, psi) == Strip(Join(SliceFrom(ls, psi)))

----------------------------------------------------------------------------
(* Lines 45-103: the composed units *)

(* a mutation of ModRs: the last two re-exports are exchanged *)
ModRsSwapped ==
  << "//! Preview rendering system", NL,
     "//!", NL,
     "//! Generates composited preview frames for the current timeline time.", NL,
     NL,
     "mod ", "renderer", ";", NL,
     "mod ", "cache", ";", NL,
     "mod ", "layers", ";", NL,
     "mod ", "types", ";", NL,
     "mod ", "utils", ";", NL,
     NL,
     "pub use ", "renderer", "::PreviewRenderer;", NL,
     "pub use ", "cache", "::{FrameCache, CachedFrame};", NL,
     "pub use ", "layers", "::{PreviewLayer, PreviewLayerStack, PreviewLayerGpu};", NL,
     "pub use ", "utils", "::*;", NL,
     "pub use ", "types", "::*;", NL >>

(* a mutation of ModRs: the declaration of utils is missing *)
ModRsShort ==
  << "//! Preview rendering system", NL,
     "//!", NL,
     "//! Generates composited preview frames for the current timeline time.", NL,
     NL,
     "mod ", "renderer", ";", NL,
     "mod ", "cache", ";", NL,
     "mod ", "layers", ";", NL,
     "mod ", "types", ";", NL,
     NL,
     "pub use ", "renderer", "::PreviewRenderer;", NL,
     "pub use ", "cache", "::{FrameCache, CachedFrame};", NL,
     "pub use ", "layers", "::{PreviewLayer, PreviewLayerStack, PreviewLayerGpu};", NL,
     "pub use ", "types", "::*;", NL,
     "pub use ", "utils", "::*;", NL >>

(* mod_rs, line 45 *)
ModRs ==
  << "//! Preview rendering system", NL,
     "//!", NL,
     "//! Generates composited preview frames for the current timeline time.", NL,
     NL,
     "mod ", "renderer", ";", NL,
     "mod ", "cache", ";", NL,
     "mod ", "layers", ";", NL,
     "mod ", "types", ";", NL,
     "mod ", "utils", ";", NL,
     NL,
     "pub use ", "renderer", "::PreviewRenderer;", NL,
     "pub use ", "cache", "::{FrameCache, CachedFrame};", NL,
     "pub use ", "layers", "::{PreviewLayer, PreviewLayerStack, PreviewLayerGpu};", NL,
     "pub use ", "types", "::*;", NL,
     "pub use ", "utils", "::*;", NL >>

(* line 48: const_block = const_block + '\n' if const_block else '' *)
ConstBlockLine(cb) == IF cb # <<>> THEN cb \o <<NL>> ELSE <<>>

(* line 49: types_rs = const_block + type_block + '\n' *)
TypesRs(cb, tb) == cb \o tb \o <<NL>>

CacheHeader ==
  << "use std::collections::{HashMap, HashSet, VecDeque};", NL,
     "use std::path::{Path, PathBuf};", NL, NL,
     "use image::RgbaImage;", NL, NL,
     "use super::{FrameKey, CachedFrame};", NL, NL >>

RendererHeader ==
  << "use std::path::{Path, PathBuf};", NL,
     "use std::sync::{Arc, Mutex};", NL,
     "use std::time::Instant;", NL, NL,
     "use image::{Rgba, RgbaImage};", NL, NL,
     "use crate::core::preview_store;", NL,
     "use crate::core::video_decode::{DecodeMode, VideoDecodeWorker};", NL,
     "use crate::state::{Asset, ClipTransform, Project, TrackType};", NL, NL,
     "use super::{", NL,
     "    cache::FrameCache,", NL,
     "    layers::{PreviewLayer, PreviewLayerGpu, PreviewLayerPlacement, PreviewLayerStack},", NL,
     "    types::{PreviewDecodeMode, PreviewFrameInfo, PreviewStats, RenderOutput},", NL,
     "    utils::{", NL,
     "        clamp_time, elapsed_ms, frame_index_to_time, image_size_bytes, scale_image_to_fit,", NL,
     "        time_to_frame_index, track_lane_id,", NL,
     "    },", NL,
     "    DecodedFrame, FrameKey, PendingDecode, PlateCache,", NL,
     "};", NL, NL >>

LayersHeader ==
  << "use std::borrow::Cow;", NL,
     "use std::path::{Path, PathBuf};", NL,
     "use std::sync::Arc;", NL, NL,
     "use image::{Rgba, RgbaImage};", NL,
     "use image::imageops::{overlay, resize, FilterType};", NL,
     "use imageproc::geometric_transformations::{rotate_about_center, Interpolation};", NL, NL,
     "use crate::state::{Asset, AssetKind, ClipTransform};", NL, NL,
     "use super::types::{PreviewLayerPlacement};", NL, NL >>

UtilsHeader ==
  << "use std::path::Path;", NL,
     "use std::time::Instant;", NL, NL,
     "use image::{Rgba, RgbaImage};", NL,
     "use image::imageops::{resize, FilterType};", NL, NL,
     "use crate::state::{Asset, AssetKind};", NL, NL >>

(* a mutation of CacheRs: the final line terminator is left out *)
CacheRsUnterminated(block) == CacheHeader \o Strip(block)

(* lines 51-58 *)
CacheRs(block) == CacheHeader \o Strip(block) \o <<NL>>

(* lines 60-80 *)
RendererRs(block) == RendererHeader \o Strip(block) \o <<NL>>

(* lines 82-93 *)
LayersRs(block) == LayersHeader \o Strip(block) \o <<NL>>

(* lines 95-103 *)
UtilsRs(block) == UtilsHeader \o Strip(block) \o <<NL>>

(* lines 105-110: the files in the order they are written *)
WriteOrder == <<"mod", "types", "cache", "renderer", "layers", "utils">>

Units == Range(WriteOrder)

----------------------------------------------------------------------------
(* The documents the script is run on: variations of a document in which
   every lookup succeeds and the markers come in the order of the lookups *)

PreChunks == {<<NL>>, <<SP>>, <<tConst>>, <<tDerive>>, <<tPreviewStats>>}

KeyChunks ==
  {KeyFrameCache, KeyGenerates, KeyPlate, KeyPendingDecode, KeyClampTime}

ChunkSeqs(C, n) == UNION {[1..k -> C] : k \in 0..n}

RECURSIVE Flatten(_)
Flatten(cs) == IF cs = <<>> THEN <<>> ELSE Head(cs) \o Flatten(Tail(cs))

(* the text before the first marker: a use line, the const line, a blank
   line, the derive line and the PreviewStats line *)
CanonPre ==
  <<tUse, SP, NL, tConst, NL, NL, tDerive, NL, tPreviewStats, NL>>

(* the five markers in order, a line each *)
CanonBody ==
  Flatten(<<KeyFrameCache, <<NL>>, KeyGenerates, <<NL>>, KeyPlate, <<NL>>,
            KeyPendingDecode, <<NL>>, KeyClampTime, <<NL>>>>)

Documents ==
  \* any head of up to MaxPre pieces, before the markers in order
  {Flatten(p) \o CanonBody : p \in ChunkSeqs(PreChunks, MaxPre)}
  \* up to MaxInserted marker texts put in before the markers in order
    \cup {CanonPre \o Flatten(b) \o CanonBody :
            b \in ChunkSeqs(KeyChunks, MaxInserted)}
  \* any sequence of up to MaxBody marker texts
    \cup {CanonPre \o Flatten(b) : b \in ChunkSeqs(KeyChunks, MaxBody)}

----------------------------------------------------------------------------
(* The state *)

VARIABLES
  source,                 \* src/core/preview.rs: NoFile or File(text)
  dirExists,              \* whether src/core/preview is a directory
  files,                  \* src/core/preview/<unit>.rs: NoFile or File(text)
  pc,                     \* the statement the script is at
  run,                    \* how many times the script has been started
  faults,                 \* how many file-system operations have failed
  failure,                \* what raised, "" while nothing has
  before,                 \* the file system when the current run started
  written,                \* the units written by the current run, in order
  completed,              \* some run has reached the end of the script
  text,
  frame_cache_start, frame_cache_impl_end, cache_block,
  renderer_start, plate_start, renderer_block,
  layers_start, utils_start, layers_block, utils_block, types_block,
  lines, preview_stats_idx, const_start, const_end, uses,
  const_block, type_block,
  mod_rs, types_rs, cache_rs, renderer_rs, layers_rs, utils_rs

disk == <<source, dirExists, files>>

located ==
  <<frame_cache_start, frame_cache_impl_end, cache_block, renderer_start,
    plate_start, renderer_block, layers_start, utils_start, layers_block,
    utils_block, types_block>>

scanned == <<lines, preview_stats_idx, const_start, const_end, uses, type_block>>

composed == <<mod_rs, types_rs, cache_rs, renderer_rs, layers_rs, utils_rs>>

history == <<run, before, completed>>

vars ==
  <<disk, pc, faults, failure, history, written, text, located, scanned,
    const_block, composed>>

NoFile == <<>>

File(content) == <<content>>

Unbound == -1

FileSystem == [source |-> source, dirExists |-> dirExists, files |-> files]

Init ==
  /\ source \in {NoFile} \cup {File(d) : d \in Documents}
  /\ dirExists = FALSE
  /\ files = [f \in Units |-> NoFile]
  /\ pc = "idle"
  /\ run = 0
  /\ faults = 0
  /\ failure = ""
  /\ before = [source |-> source, dirExists |-> FALSE,
               files |-> [f \in Units |-> NoFile]]
  /\ written = <<>>
  /\ completed = FALSE
  /\ text = <<>>
  /\ frame_cache_start = Unbound
  /\ frame_cache_impl_end = Unbound
  /\ cache_block = <<>>
  /\ renderer_start = Unbound
  /\ plate_start = Unbound
  /\ renderer_block = <<>>
  /\ layers_start = Unbound
  /\ utils_start = Unbound
  /\ layers_block = <<>>
  /\ utils_block = <<>>
  /\ types_block = <<>>
  /\ lines = <<>>
  /\ preview_stats_idx = Unbound
  /\ const_start = Unbound
  /\ const_end = Unbound
  /\ uses = <<>>
  /\ const_block = <<>>
  /\ type_block = <<>>
  /\ mod_rs = <<>>
  /\ types_rs = <<>>
  /\ cache_rs = <<>>
  /\ renderer_rs = <<>>
  /\ layers_rs = <<>>
  /\ utils_rs = <<>>

----------------------------------------------------------------------------
(* The script, statement by statement *)

(* the interpreter starts the script: a fresh process, no name bound *)
Invoke ==
  /\ pc \in {"idle", "done", "error"}
  /\ run < MaxRuns
  /\ run' = run + 1
  /\ before' = FileSystem
  /\ pc' = "load"
  /\ failure' = ""
  /\ written' = <<>>
  /\ text' = <<>>
  /\ frame_cache_start' = Unbound
  /\ frame_cache_impl_end' = Unbound
  /\ cache_block' = <<>>
  /\ renderer_start' = Unbound
  /\ plate_start' = Unbound
  /\ renderer_block' = <<>>
  /\ layers_start' = Unbound
  /\ utils_start' = Unbound
  /\ layers_block' = <<>>
  /\ utils_block' = <<>>
  /\ types_block' = <<>>
  /\ lines' = <<>>
  /\ preview_stats_idx' = Unbound
  /\ const_start' = Unbound
  /\ const_end' = Unbound
  /\ uses' = <<>>
  /\ const_block' = <<>>
  /\ type_block' = <<>>
  /\ mod_rs' = <<>>
  /\ types_rs' = <<>>
  /\ cache_rs' = <<>>
  /\ renderer_rs' = <<>>
  /\ layers_rs' = <<>>
  /\ utils_rs' = <<>>
  /\ UNCHANGED <<disk, faults, completed>>

(* a mutation of Load: the output directory is made before anything is
   looked up *)
LoadMkdirFirst ==
  /\ pc = "load"
  /\ source # NoFile
  /\ text' = source[1]
  /\ dirExists' = TRUE
  /\ pc' = "locate"
  /\ UNCHANGED <<source, files, faults, failure, history, written, located,
                 scanned, const_block, composed>>

(* line 5: read_text of a document that is there *)
Load ==
  /\ pc = "load"
  /\ source # NoFile
  /\ text' = source[1]
  /\ pc' = "locate"
  /\ UNCHANGED <<disk, faults, failure, history, written, located, scanned,
                 const_block, composed>>

(* line 5: read_text raises FileNotFoundError *)
LoadMissing ==
  /\ pc = "load"
  /\ source = NoFile
  /\ pc' = "error"
  /\ failure' = "read_text"
  /\ UNCHANGED <<disk, faults, history, written, text, located, scanned,
                 const_block, composed>>

(* lines 7-16: the text.index calls, in the order they are made *)
Lookups ==
  << [name |-> "frame_cache_start", key |-> KeyFrameCache],
     [name |-> "frame_cache_impl_end", key |-> KeyGenerates],
     [name |-> "renderer_start", key |-> KeyGenerates],
     [name |-> "plate_start", key |-> KeyPlate],
     [name |-> "layers_start", key |-> KeyPendingDecode],
     [name |-> "utils_start", key |-> KeyClampTime] >>

(* the lookups that raise ValueError on t *)
Missing(t) == {n \in 1..Len(Lookups) : Index(t, Lookups[n].key) = NotFound}

(* lines 7-22 *)
Locate ==
  /\ pc = "locate"
  /\ LET missing == Missing(text)
         \* lookup n is reached and succeeds
         bound(n) == \A m \in missing : m > n
     IN
     /\ frame_cache_start' =
          IF bound(1) THEN Index(text, KeyFrameCache) ELSE Unbound
     /\ frame_cache_impl_end' =
          IF bound(2) THEN Index(text, KeyGenerates) ELSE Unbound
     /\ cache_block' =
          IF bound(2)
          THEN Slice(text, frame_cache_start', frame_cache_impl_end') ELSE <<>>
     /\ renderer_start' =
          IF bound(3) THEN Index(text, KeyGenerates) ELSE Unbound
     /\ plate_start' =
          IF bound(4) THEN Index(text, KeyPlate) ELSE Unbound
     /\ renderer_block' =
          IF bound(4) THEN Slice(text, renderer_start', plate_start') ELSE <<>>
     /\ layers_start' =
          IF bound(5) THEN Index(text, KeyPendingDecode) ELSE Unbound
     /\ utils_start' =
          IF bound(6) THEN Index(text, KeyClampTime) ELSE Unbound
     /\ layers_block' =
          IF bound(6) THEN Slice(text, layers_start', utils_start') ELSE <<>>
     /\ utils_block' =
          IF bound(6) THEN SliceFrom(text, utils_start') ELSE <<>>
     /\ types_block' =
          IF bound(6) THEN Slice(text, 0, frame_cache_start') ELSE <<>>
     /\ IF missing = {}
        THEN pc' = "scan" /\ failure' = ""
        ELSE pc' = "error" /\ failure' = Lookups[Min(missing)].name
  /\ UNCHANGED <<disk, faults, history, written, text, scanned, const_block,
                 composed>>

(* lines 25-41 *)
Scan ==
  /\ pc = "scan"
  /\ lines' = SplitLines(types_block)
  /\ preview_stats_idx' =
       IF PreviewStatsIdx(lines') >= 0 THEN PreviewStatsIdx(lines') ELSE Unbound
  /\ const_start' =
       IF PreviewStatsIdx(lines') >= 0 /\ ConstStart(lines') >= 0
       THEN ConstStart(lines') ELSE Unbound
  /\ IF PreviewStatsIdx(lines') < 0
     THEN /\ pc' = "error"
          /\ failure' = "preview_stats_idx"
          /\ UNCHANGED <<const_end, uses, const_block, type_block>>
     ELSE IF ConstStart(lines') < 0
     THEN /\ pc' = "error"
          /\ failure' = "const_start"
          /\ UNCHANGED <<const_end, uses, const_block, type_block>>
     ELSE /\ pc' = "mkdir"
          /\ failure' = ""
          /\ const_end' = preview_stats_idx'
          /\ uses' = Uses(lines', const_start')
          /\ const_block' = ConstBlock(lines', const_start', const_end')
          /\ type_block' = TypeBlock(lines', preview_stats_idx')
  /\ UNCHANGED <<disk, faults, history, written, text, located, composed>>

(* line 43: mkdir(exist_ok=True) *)
MakeDir ==
  /\ pc = "mkdir"
  /\ dirExists' = TRUE
  /\ pc' = "compose"
  /\ UNCHANGED <<source, files, faults, failure, history, written, text,
                 located, scanned, const_block, composed>>

(* line 43: mkdir raises OSError *)
MakeDirFails ==
  /\ pc = "mkdir"
  /\ faults < MaxFaults
  /\ faults' = faults + 1
  /\ pc' = "error"
  /\ failure' = "mkdir"
  /\ UNCHANGED <<disk, history, written, text, located, scanned, const_block,
                 composed>>

(* lines 45-103 *)
Compose ==
  /\ pc = "compose"
  /\ mod_rs' = ModRs
  /\ const_block' = ConstBlockLine(const_block)
  /\ types_rs' = TypesRs(const_block', type_block)
  /\ cache_rs' = CacheRs(cache_block)
  /\ renderer_rs' = RendererRs(renderer_block)
  /\ layers_rs' = LayersRs(layers_block)
  /\ utils_rs' = UtilsRs(utils_block)
  /\ pc' = "write"
  /\ UNCHANGED <<disk, faults, failure, history, written, text, located,
                 scanned>>

(* the text each write_text call is given *)
UnitText(f) ==
  CASE f = "mod" -> mod_rs
    [] f = "types" -> types_rs
    [] f = "cache" -> cache_rs
    [] f = "renderer" -> renderer_rs
    [] f = "layers" -> layers_rs
    [] f = "utils" -> utils_rs

(* the unit the next write_text call writes *)
NextUnit == WriteOrder[Len(written) + 1]

(* lines 105-110: one write_text call *)
WriteUnit ==
  /\ pc = "write"
  /\ files' = [files EXCEPT ![NextUnit] = File(UnitText(NextUnit))]
  /\ written' = Append(written, NextUnit)
  /\ pc' = IF Len(written') = Len(WriteOrder) THEN "unlink" ELSE "write"
  /\ UNCHANGED <<source, dirExists, faults, failure, history, text, located,
                 scanned, const_block, composed>>

(* a mutation of WriteUnitFails: the error is swallowed and the script goes on *)
WriteUnitFailsIgnored ==
  /\ pc = "write"
  /\ faults < MaxFaults
  /\ faults' = faults + 1
  /\ written' = Append(written, NextUnit)
  /\ pc' = IF Len(written') = Len(WriteOrder) THEN "unlink" ELSE "write"
  /\ UNCHANGED <<disk, failure, history, text, located, scanned, const_block,
                 composed>>

(* lines 105-110: a write_text call raises OSError; the file is untouched
   (open failed) or left empty (open truncated it, the write failed) *)
WriteUnitFails ==
  /\ pc = "write"
  /\ faults < MaxFaults
  /\ faults' = faults + 1
  /\ files' \in {files, [files EXCEPT ![NextUnit] = File(<<>>)]}
  /\ pc' = "error"
  /\ failure' = "write_text"
  /\ UNCHANGED <<source, dirExists, history, written, text, located, scanned,
                 const_block, composed>>

(* a mutation of Unlink: the original is left in place *)
UnlinkKeeps ==
  /\ pc = "unlink"
  /\ pc' = "done"
  /\ completed' = TRUE
  /\ UNCHANGED <<disk, faults, failure, run, before, written, text, located,
                 scanned, const_block, composed>>

(* line 112: unlink(missing_ok=True) *)
Unlink ==
  /\ pc = "unlink"
  /\ source' = NoFile
  /\ pc' = "done"
  /\ completed' = TRUE
  /\ UNCHANGED <<dirExists, files, faults, failure, run, before, written,
                 text, located, scanned, const_block, composed>>

(* line 112: unlink raises OSError *)
UnlinkFails ==
  /\ pc = "unlink"
  /\ faults < MaxFaults
  /\ faults' = faults + 1
  /\ pc' = "error"
  /\ failure' = "unlink"
  /\ UNCHANGED <<disk, history, written, text, located, scanned, const_block,
                 composed>>

Next ==
  \/ Invoke
  \/ Load
  \/ LoadMissing
  \/ Locate
  \/ Scan
  \/ MakeDir
  \/ MakeDirFails
  \/ Compose
  \/ WriteUnit
  \/ WriteUnitFails
  \/ Unlink
  \/ UnlinkFails

Spec == Init /\ [][Next]_vars

----------------------------------------------------------------------------
(* Vocabulary of the properties *)

(* the lookups of the script that can fail to find their marker *)
MarkerFailures ==
  {Lookups[n].name : n \in 1..Len(Lookups)} \cup {"preview_stats_idx", "const_start"}

(* lines 7-22 have run to the end in the current run *)
Located == utils_start # Unbound

(* lines 45-103 have run in the current run *)
Composed == mod_rs # <<>>

(* the five block ranges [lo, hi) of the current run *)
BlockRanges ==
  << [lo |-> 0, hi |-> frame_cache_start],
     [lo |-> frame_cache_start, hi |-> frame_cache_impl_end],
     [lo |-> renderer_start, hi |-> plate_start],
     [lo |-> layers_start, hi |-> utils_start],
     [lo |-> utils_start, hi |-> Len(text)] >>

(* c is s without its leading and trailing blank space *)
IsTrimOf(c, s) ==
  /\ c = <<>> \/ (c[1] \notin Whitespace /\ c[Len(c)] \notin Whitespace)
  /\ \E a \in 0..Len(s) :
       /\ a + Len(c) <= Len(s)
       /\ \A i \in 1..Len(s) :
            IF i > a /\ i <= a + Len(c) THEN s[i] = c[i - a]
            ELSE s[i] \in Whitespace

(* u ends with a line terminator, and with one only *)
EndsWithOneTerminator(u) ==
  /\ Len(u) >= 1
  /\ u[Len(u)] = NL
  /\ Len(u) >= 2 => u[Len(u) - 1] # NL

(* u is header, then the trimmed block, then one line terminator *)
HeaderThenBlock(u, header, block) ==
  /\ Len(u) > Len(header)
  /\ SubSeq(u, 1, Len(header)) = header
  /\ u[Len(u)] = NL
  /\ IsTrimOf(SubSeq(u, Len(header) + 1, Len(u) - 1), block)

(* u is some preamble, one blank line, the trimmed block (which is not
   empty), one line terminator *)
PreambleBlankBlock(u, block) ==
  \E h \in 3..Len(u) :
    /\ u[h] = NL /\ u[h - 1] = NL /\ u[h - 2] # NL
    /\ Len(u) > h + 1
    /\ u[h + 1] # NL
    /\ u[Len(u)] = NL
    /\ IsTrimOf(SubSeq(u, h + 1, Len(u) - 1), block)

RECURSIVE Named(_, _, _)
(* the names that follow the keyword kw at the start of a line of c, from
   token i on, in order *)
Named(c, kw, i) ==
  IF i > Len(c) THEN <<>>
  ELSE (IF c[i] = kw /\ (i = 1 \/ c[i - 1] = NL) /\ i < Len(c)
        THEN <<c[i + 1]>> ELSE <<>>) \o Named(c, kw, i + 1)

(* the sub-units the aggregator on disk declares, and those it re-exports *)
Declared == Named(files["mod"][1], "mod ", 1)

ReExported == Named(files["mod"][1], "pub use ", 1)

NotAggregator(f) == f # "mod"

(* the first occurrence of key in t at or after offset from *)
FirstAtOrAfter(t, key, from) ==
  IF {o \in Occurrences(t, key) : o >= from} = {} THEN NotFound
  ELSE Min({o \in Occurrences(t, key) : o >= from})

(* what the lookups of the current run resolved to, in the order made *)
Resolved ==
  <<frame_cache_start, frame_cache_impl_end, renderer_start, plate_start,
    layers_start, utils_start>>

(* lines 7-22 have been executed in the current run, to the end or to the
   lookup that raised *)
LocateRan == Located \/ (pc = "error" /\ failure \in
                           {Lookups[n].name : n \in 1..Len(Lookups)})

----------------------------------------------------------------------------
(* C1: when a marker lookup fails (one of the text.index calls or one of the
   two line scans), the run is in error and nothing it could observe has
   changed on disk: no directory made, no unit written, the original still
   there.  And no run gets to mkdir or beyond with a marker missing. *)
C1_AtomicOnMissingMarker ==
  /\ (pc = "error" /\ failure \in MarkerFailures)
       => (FileSystem = before /\ written = <<>>)
  /\ pc \in {"mkdir", "compose", "write", "unlink", "done"}
       => /\ \A n \in 1..Len(Lookups) : Occurrences(text, Lookups[n].key) # {}
          /\ \E i \in 1..Len(lines) : StartsWith(lines[i], tConst)
          /\ \E i \in 1..(Len(lines) - 1) :
               /\ StartsWith(Strip(lines[i]), tDerive)
               /\ tPreviewStats \in Range(lines[i + 1])

(* a run whose last text.index call failed after the earlier ones had
   succeeded, the original being on disk *)
C1_Witness ==
  /\ pc = "error"
  /\ failure = "utils_start"
  /\ frame_cache_start # Unbound
  /\ source # NoFile

(* C2 (as claimed): once all markers are resolved, every offset of the
   document lies in exactly one of the five block ranges and the blocks,
   concatenated in range order, are the document. *)
C2_TotalCoverage ==
  Located =>
    /\ \A i \in 0..(Len(text) - 1) :
         Cardinality({k \in 1..Len(BlockRanges) :
                        BlockRanges[k].lo <= i /\ i < BlockRanges[k].hi}) = 1
    /\ types_block \o cache_block \o renderer_block \o layers_block
         \o utils_block = text

(* C3 (as claimed): a run that reaches the write step resolved its
   boundaries to non-decreasing offsets, in declaration order. *)
C3_MonotonicResolution ==
  pc \in {"write", "unlink", "done"} =>
    /\ frame_cache_start <= frame_cache_impl_end
    /\ frame_cache_impl_end = renderer_start
    /\ renderer_start <= plate_start
    /\ plate_start <= layers_start
    /\ layers_start <= utils_start

(* C4: the original is removed only by a run that has written all six units
   with their composed text, and a run whose write failed leaves the
   original in place. *)
C4_SourceRetiredLast ==
  /\ source # before.source
       => /\ written = WriteOrder
          /\ \A f \in Units : files[f] = File(UnitText(f))
  /\ failure = "write_text" => (source = before.source /\ source # NoFile)

(* a run that has removed the original *)
C4_Witness ==
  /\ pc = "done"
  /\ before.source # NoFile
  /\ source = NoFile

(* C5: once a run has written its six units, the sub-units that mod.rs on
   disk declares are exactly the other five units written, each declared
   once, and each has exactly one re-export statement. *)
C5_ManifestComplete ==
  written = WriteOrder =>
    LET declared == Declared
        reexported == ReExported
    IN  /\ Range(declared) = {f \in Range(written) : NotAggregator(f)}
        /\ Len(declared) = Cardinality(Range(declared))
        /\ \A d \in Range(declared) :
             Cardinality({i \in 1..Len(reexported) : reexported[i] = d}) = 1
        /\ Range(reexported) \subseteq Range(declared)

(* the last of the six writes has just been made *)
C5_Witness ==
  /\ pc = "unlink"
  /\ written = WriteOrder
  /\ files["utils"] = File(utils_rs)

(* C6 (as claimed): the aggregator declares and re-exports the sub-units in
   the order in which the units are written. *)
C6_ManifestOrderAsWritten ==
  written = WriteOrder =>
    LET order == SelectSeq(written, NotAggregator)
    IN  Declared = order /\ ReExported = order

(* C6 (amended): the re-export statements are in the order of the
   declarations, and that order is renderer, cache, layers, types, utils. *)
C6_ManifestOrderFixed ==
  written = WriteOrder =>
    LET declared == Declared
    IN  /\ declared = <<"renderer", "cache", "layers", "types", "utils">>
        /\ ReExported = declared

(* all six units are on disk and the declared order is not the write order *)
C6_Witness ==
  /\ written = WriteOrder
  /\ pc = "done"
  /\ Declared # SelectSeq(written, NotAggregator)

(* C7 (as claimed): every composed unit other than the aggregator is a
   preamble, exactly one blank line, the trimmed block, and ends with
   exactly one line terminator. *)
C7_UnitFormat ==
  Composed =>
    /\ PreambleBlankBlock(types_rs, types_block)
    /\ PreambleBlankBlock(cache_rs, cache_block)
    /\ PreambleBlankBlock(renderer_rs, renderer_block)
    /\ PreambleBlankBlock(layers_rs, layers_block)
    /\ PreambleBlankBlock(utils_rs, utils_block)
    /\ \A u \in {types_rs, cache_rs, renderer_rs, layers_rs, utils_rs} :
         EndsWithOneTerminator(u)

(* h ends with a line terminator and exactly one blank line *)
EndsWithOneBlankLine(h) ==
  /\ Len(h) >= 3
  /\ h[Len(h)] = NL /\ h[Len(h) - 1] = NL /\ h[Len(h) - 2] # NL

(* some text of s is not blank space *)
HasText(s) == \E i \in 1..Len(s) : s[i] \notin Whitespace

(* u is header, which ends with one blank line, then the trimmed block, then
   one line terminator; it ends with exactly one line terminator when, and
   only when, the trimmed block is not empty *)
HeaderBlankBlock(u, header, block) ==
  /\ EndsWithOneBlankLine(header)
  /\ HeaderThenBlock(u, header, block)
  /\ EndsWithOneTerminator(u) <=> HasText(block)

(* C7 (amended): each of the cache, renderer, layers and utils units is its
   header preamble, which ends with exactly one blank line, then the trimmed
   block, then one line terminator, so that it ends with exactly one line
   terminator when the trimmed block is not empty and with the blank line of
   the header and one more terminator when it is empty.  The types unit has
   no preamble: it starts with the const line (with the derive line when no
   const line comes before it) and ends with exactly one line terminator. *)
C7_UnitFormatAsComposed ==
  Composed =>
    /\ HeaderBlankBlock(cache_rs, CacheHeader, cache_block)
    /\ HeaderBlankBlock(renderer_rs, RendererHeader, renderer_block)
    /\ HeaderBlankBlock(layers_rs, LayersHeader, layers_block)
    /\ HeaderBlankBlock(utils_rs, UtilsHeader, utils_block)
    /\ types_rs[1] = (IF const_start < const_end THEN tConst ELSE tDerive)
    /\ EndsWithOneTerminator(types_rs)
    /\ ~ PreambleBlankBlock(types_rs, types_block)

(* units composed from a document whose renderer block is empty and whose
   cache block is not *)
C7_Witness ==
  /\ Composed
  /\ pc = "write"
  /\ renderer_block = <<>>
  /\ HasText(cache_block)
  /\ HasText(layers_block)

(* C8 (as claimed): every lookup resolves to the first occurrence of its key
   at or after the offset of the lookup before it, and raises exactly when
   there is none there. *)
C8_ConstrainedScan ==
  LocateRan =>
    \A n \in 1..Len(Lookups) :
      LET from == IF n = 1 THEN 0 ELSE Resolved[n - 1]
          reached == \A m \in 1..(n - 1) : Resolved[m] # Unbound
      IN  reached =>
            /\ Resolved[n] # Unbound
                 => Resolved[n] = FirstAtOrAfter(text, Lookups[n].key, from)
            /\ Resolved[n] = Unbound
                 <=> FirstAtOrAfter(text, Lookups[n].key, from) = NotFound

(* C8 (amended): every lookup resolves to the first occurrence of its key in
   the whole document, wherever the lookup before it resolved, and raises
   exactly when the key occurs nowhere. *)
C8_WholeTextScan ==
  LocateRan =>
    \A n \in 1..Len(Lookups) :
      LET reached == \A m \in 1..(n - 1) : Resolved[m] # Unbound
          occurs == Occurrences(text, Lookups[n].key)
      IN  reached =>
            /\ Resolved[n] # Unbound
                 => /\ Resolved[n] \in occurs
                    /\ \A o \in occurs : Resolved[n] <= o
            /\ Resolved[n] = Unbound <=> occurs = {}
            /\ (Resolved[n] = Unbound) = (failure = Lookups[n].name)

(* a key occurs before and after the boundary resolved before it, and the
   lookup took the earlier occurrence *)
C8_Witness ==
  /\ Located
  /\ \E n \in 2..Len(Lookups) :
       /\ Resolved[n] < Resolved[n - 1]
       /\ \E o \in Occurrences(text, Lookups[n].key) : o >= Resolved[n - 1]

(* C9 (as claimed): what follows the header in every unit is the trimmed
   slice of its block; the types unit, which has no header, is the trimmed
   slice text[:frame_cache_start]. *)
C9_LosslessSlicing ==
  Composed =>
    /\ HeaderThenBlock(types_rs, <<>>, types_block)
    /\ HeaderThenBlock(cache_rs, CacheHeader, cache_block)
    /\ HeaderThenBlock(renderer_rs, RendererHeader, renderer_block)
    /\ HeaderThenBlock(layers_rs, LayersHeader, layers_block)
    /\ HeaderThenBlock(utils_rs, UtilsHeader, utils_block)

(* C9 (amended): what follows the header in the cache, renderer, layers and
   utils units is the trimmed slice of the block, then one line terminator;
   the types unit is the trimmed lines from the const line up to the derive
   line (with a line terminator, when there are any) and then the trimmed
   lines from the derive line on, so that the lines before the const line
   and the blank lines around the two parts are not in it. *)
C9_LosslessButTypes ==
  Composed =>
    /\ HeaderThenBlock(cache_rs, CacheHeader, cache_block)
    /\ HeaderThenBlock(renderer_rs, RendererHeader, renderer_block)
    /\ HeaderThenBlock(layers_rs, LayersHeader, layers_block)
    /\ HeaderThenBlock(utils_rs, UtilsHeader, utils_block)
    /\ \E k \in 0..Len(types_rs) :
         /\ IF k = 0 THEN const_start >= const_end
            ELSE /\ types_rs[k] = NL
                 /\ k >= 2
                 /\ IsTrimOf(SubSeq(types_rs, 1, k - 1),
                             Join(Slice(lines, const_start, const_end)))
         /\ HeaderThenBlock(SubSeq(types_rs, k + 1, Len(types_rs)), <<>>,
                            Join(SliceFrom(lines, preview_stats_idx)))

(* a composed run whose types block has lines before the const line and
   whose cache block has blank space to trim *)
C9_Witness ==
  /\ Composed
  /\ const_start > 0
  /\ cache_block # <<>>
  /\ cache_block[Len(cache_block)] \in Whitespace
  /\ ~ HeaderThenBlock(types_rs, <<>>, types_block)

(* C10: once a run has reached the end of the script, no later step changes
   the directory, the six files or the (removed) original, and every later
   run stops at the load step with read_text raising. *)
C10_RerunAfterSuccess ==
  [][completed =>
       /\ files' = files
       /\ dirExists' = dirExists
       /\ source' = source
       /\ source = NoFile
       /\ pc' \in {"load", "error"}
       /\ pc' = "error" => failure' = "read_text"]_vars

(* a run started after a completed one has stopped at the load step *)
C10_Witness ==
  /\ completed
  /\ run >= 2
  /\ pc = "error"
  /\ failure = "read_text"
  /\ \A f \in Units : files[f] # NoFile

====
